---- MODULE Spec2Model ----
(***************************************************************************)
(* Model of the retrieval core of av_memory (src/src/av_memory/search.py): *)
(* the filter builder, the per-modality query fan-out of search_fused, the *)
(* score normalisation and fusion of fuse_rankings and the novelty         *)
(* classifier is_novel_scene.                                              *)
(*                                                                         *)
(* Numbers.  Raw similarity scores are whole numbers (the floats -1.0,     *)
(* 0.0, 1.0, 2.0, ...).  A weight is a whole number of hundredths (0.40 is *)
(* 40), the float being the one its literal denotes.  Normalised and       *)
(* fused scores are Python floats, IEEE 754 doubles [neg, m, e], computed  *)
(* with the rounding of every division, product and sum of the code.       *)
(* An optional value (Python None) is the empty tuple, a present value v   *)
(* is the one-element tuple <<v>>.                                         *)
(***************************************************************************)
EXTENDS Integers, Sequences, FiniteSets, TLC

VARIABLES
    pc,                 \* position of the running call
    lists_by_modality,  \* dict modality -> iterable of ScoredPoint, in insertion order
    weights,            \* SearchWeights, in hundredths
    top_k,              \* result cap
    max_score,          \* fuse_rankings: its max_score dict
    fused,              \* fuse_rankings: its fused dict, in insertion order
    out,                \* list returned by fuse_rankings / search_fused
    query_vectors,      \* search_fused: modality -> "absent" | "empty" | "vector"
    criteria,           \* the six filter criteria, each optional
    filt,               \* the filter built by _make_filter (None or a clause list)
    limit_per_modality, \* search_fused: per-query cap
    idx,                \* search_fused: position of the loop in ModalityOrder
    queries,            \* store queries issued so far, in order
    error,              \* exception that left the call, or "none"
    fused_results,      \* is_novel_scene: its input list
    threshold,          \* is_novel_scene: threshold, a float
    min_results,        \* is_novel_scene: min_results
    verdict,            \* is_novel_scene: "True", "False", "IndexError" or "unset"
    count,              \* ingest_scenarios: count
    batch_size,         \* ingest_scenarios: batch_size
    seed,               \* ingest_scenarios: seed
    now_ts,             \* ingest_scenarios: now_ts, read from the clock at the call
    loop_i,             \* ingest_scenarios: the next value of its loop variable i
    buf,                \* ingest_scenarios: buf, the points not yet flushed
    store,              \* the collection: the set of points it holds
    upserts,            \* history: every upsert call made so far, in order
    runs,               \* number of ingest_scenarios calls started
    replays,            \* number of batches the caller has replayed
    failure,            \* exception that left ingest_scenarios, or "none"
    collection_exists,  \* the store lists the collection
    reset_pc,           \* recreate_collection: the store call it makes next, or how it ended
    settings,           \* Settings: the configured vector dimensions
    encoder,            \* the encoder called, by modality
    raw_input,          \* the raw input handed to the encoder
    vec                 \* the encoder's result: "unset", "ValueError" or a vector

vars == <<pc, lists_by_modality, weights, top_k, max_score, fused, out, query_vectors, criteria,
          filt, limit_per_modality, idx, queries, error, fused_results, threshold,
          min_results, verdict, count, batch_size, seed, now_ts, loop_i, buf, store, upserts,
          runs, replays, failure, collection_exists, reset_pc, settings, encoder,
          raw_input, vec>>

ingestVars == <<count, batch_size, seed, now_ts, loop_i, buf, store, upserts, runs, replays,
                failure, collection_exists, reset_pc>>
encodeVars == <<settings, encoder, raw_input, vec>>

-----------------------------------------------------------------------------
(* Bounds of the model *)

MaxId == 2          \* record identifiers are 1..MaxId
MaxRawScore == 2    \* raw scores are -1..MaxRawScore, or None
MaxLen == 2         \* longest result list of one modality
MaxPoints == 3      \* most scored points over all lists of one fuse_rankings call
MaxMods == 2        \* most modalities in one fuse_rankings call
MaxTopK == 2        \* largest top_k
MaxLimit == 2       \* largest limit_per_modality
MaxTs == 1          \* timestamps are 0..MaxTs
MaxFused == 3       \* longest list given to is_novel_scene
MaxMinResults == 4  \* min_results is -1..MaxMinResults

-----------------------------------------------------------------------------
(* Optional values *)

None == <<>>
Some(v) == <<v>>
IsNone(x) == x = <<>>
Val(x) == x[1]

Abs(x) == IF x < 0 THEN -x ELSE x

-----------------------------------------------------------------------------
(* Python floats: IEEE 754 doubles, every operation rounded to the nearest  *)
(* double, ties to the even mantissa. A natural number too large for one    *)
(* machine word is a sequence of limbs, lowest first, without leading       *)
(* zeros; a double is sign, mantissa m (0, or MantBits bits long) and       *)
(* exponent e, with the value m * 2^e.                                      *)

LimbBits == 14
LimbBase == 2 ^ LimbBits
MantBits == 53
\* bits a quotient is carried to before it is rounded
QuotBits == 72

Min(a, b) == IF a < b THEN a ELSE b
Max(a, b) == IF a > b THEN a ELSE b

RECURSIVE BigTrim(_)
BigTrim(a) ==
    IF a # <<>> /\ a[Len(a)] = 0 THEN BigTrim(SubSeq(a, 1, Len(a) - 1)) ELSE a

RECURSIVE BigOf(_)
BigOf(n) == IF n = 0 THEN <<>> ELSE <<n % LimbBase>> \o BigOf(n \div LimbBase)

Limb(a, i) == IF i \in DOMAIN a THEN a[i] ELSE 0

RECURSIVE AddFrom(_, _, _, _)
AddFrom(a, b, i, carry) ==
    IF i > Max(Len(a), Len(b)) THEN (IF carry = 0 THEN <<>> ELSE <<carry>>)
    ELSE LET s == Limb(a, i) + Limb(b, i) + carry
         IN  <<s % LimbBase>> \o AddFrom(a, b, i + 1, s \div LimbBase)

BigAdd(a, b) == AddFrom(a, b, 1, 0)

RECURSIVE SubFrom(_, _, _, _)
SubFrom(a, b, i, borrow) ==
    IF i > Len(a) THEN <<>>
    ELSE LET s == Limb(a, i) - Limb(b, i) - borrow
         IN  IF s < 0 THEN <<s + LimbBase>> \o SubFrom(a, b, i + 1, 1)
             ELSE <<s>> \o SubFrom(a, b, i + 1, 0)

\* a - b for a >= b
BigSub(a, b) == BigTrim(SubFrom(a, b, 1, 0))

RECURSIVE CmpFrom(_, _, _)
CmpFrom(a, b, i) ==
    IF i = 0 THEN 0
    ELSE IF a[i] # b[i] THEN (IF a[i] < b[i] THEN -1 ELSE 1)
    ELSE CmpFrom(a, b, i - 1)

\* -1, 0 or 1 as a is below, equal to or above b
BigCmp(a, b) ==
    IF Len(a) # Len(b) THEN (IF Len(a) < Len(b) THEN -1 ELSE 1)
    ELSE CmpFrom(a, b, Len(a))

RECURSIVE MulSmallFrom(_, _, _, _)
MulSmallFrom(a, k, i, carry) ==
    IF i > Len(a) THEN (IF carry = 0 THEN <<>> ELSE <<carry % LimbBase, carry \div LimbBase>>)
    ELSE LET s == a[i] * k + carry
         IN  <<s % LimbBase>> \o MulSmallFrom(a, k, i + 1, s \div LimbBase)

\* a * k for a word k below 4 * LimbBase
BigMulSmall(a, k) == BigTrim(MulSmallFrom(a, k, 1, 0))

BigShiftLimbs(a, n) == IF a = <<>> THEN <<>> ELSE [i \in 1 .. n |-> 0] \o a

RECURSIVE MulFrom(_, _, _)
MulFrom(a, b, i) ==
    IF i > Len(b) THEN <<>>
    ELSE BigAdd(BigShiftLimbs(BigMulSmall(a, b[i]), i - 1), MulFrom(a, b, i + 1))

BigMul(a, b) == MulFrom(a, b, 1)

\* a * 2^k
BigShl(a, k) == BigShiftLimbs(BigMulSmall(a, 2 ^ (k % LimbBits)), k \div LimbBits)

RECURSIVE DivSmallFrom(_, _, _, _)
DivSmallFrom(a, d, i, rem) ==
    IF i = 0 THEN [q |-> <<>>, r |-> rem]
    ELSE LET cur == rem * LimbBase + a[i]
             rest == DivSmallFrom(a, d, i - 1, cur % d)
         IN  [q |-> Append(rest.q, cur \div d), r |-> rest.r]

\* quotient and remainder of a by a word d, 0 < d < 4 * LimbBase
BigDivSmall(a, d) ==
    LET x == DivSmallFrom(a, d, Len(a), 0) IN [q |-> BigTrim(x.q), r |-> x.r]

\* floor(a / 2^k), and whether a bit was lost
BigShr(a, k) ==
    LET n == Min(k \div LimbBits, Len(a))
        x == BigDivSmall(SubSeq(a, n + 1, Len(a)), 2 ^ (k % LimbBits))
    IN  [q |-> x.q, sticky |-> x.r # 0 \/ \E i \in 1 .. n : a[i] # 0]

RECURSIVE WordBits(_)
WordBits(n) == IF n = 0 THEN 0 ELSE 1 + WordBits(n \div 2)

BitLen(a) == IF a = <<>> THEN 0 ELSE LimbBits * (Len(a) - 1) + WordBits(a[Len(a)])

BigOdd(a) == a # <<>> /\ a[1] % 2 = 1

DblZero == [neg |-> FALSE, m |-> <<>>, e |-> 0]

\* the double nearest to n * 2^e, or to a value just above it when sticky; a sticky n is
\* longer than MantBits bits
RoundBig(neg, n, e, sticky) ==
    IF n = <<>> THEN DblZero
    ELSE LET len == BitLen(n)
         IN  IF len <= MantBits
             THEN [neg |-> neg, m |-> BigShl(n, MantBits - len), e |-> e - (MantBits - len)]
             ELSE LET s == len - MantBits
                      x == BigShr(n, s - 1)
                      q == BigDivSmall(x.q, 2).q
                      up == BigOdd(x.q) /\ (x.sticky \/ sticky \/ BigOdd(q))
                      r == IF up THEN BigAdd(q, <<1>>) ELSE q
                  IN  IF BitLen(r) > MantBits
                      THEN [neg |-> neg, m |-> BigDivSmall(r, 2).q, e |-> e + s + 1]
                      ELSE [neg |-> neg, m |-> r, e |-> e + s]

\* float(n) / float(d) for whole numbers n and d > 0; also the literal n/d (0.45 is 45/100)
DblDiv(n, d) ==
    LET x == BigDivSmall(BigShl(BigOf(Abs(n)), QuotBits), d)
    IN  RoundBig(n < 0, x.q, -QuotBits, x.r # 0)

\* float(n)
DblOf(n) == DblDiv(n, 1)

\* a * b
DblMul(a, b) == RoundBig(a.neg # b.neg, BigMul(a.m, b.m), a.e + b.e, FALSE)

\* a + b
DblAdd(a, b) ==
    IF a.m = <<>> THEN b
    ELSE IF b.m = <<>> THEN a
    ELSE LET e == Min(a.e, b.e)
             x == BigShl(a.m, a.e - e)
             y == BigShl(b.m, b.e - e)
             c == BigCmp(x, y)
         IN  IF a.neg = b.neg THEN RoundBig(a.neg, BigAdd(x, y), e, FALSE)
             ELSE IF c = 0 THEN DblZero
             ELSE IF c > 0 THEN RoundBig(a.neg, BigSub(x, y), e, FALSE)
             ELSE RoundBig(b.neg, BigSub(y, x), e, FALSE)

Sgn(a) == IF a.m = <<>> THEN 0 ELSE IF a.neg THEN -1 ELSE 1
MagLess(a, b) == a.e < b.e \/ (a.e = b.e /\ BigCmp(a.m, b.m) < 0)

\* a < b
DblLess(a, b) ==
    IF Sgn(a) # Sgn(b) THEN Sgn(a) < Sgn(b)
    ELSE IF Sgn(a) = 0 THEN FALSE
    ELSE IF Sgn(a) = 1 THEN MagLess(a, b)
    ELSE MagLess(b, a)

-----------------------------------------------------------------------------
(* SearchWeights, search.py 12-17 *)

WeightScale == 100
DefaultVision == 40
DefaultLidar == 30
DefaultRadar == 15
DefaultText == 15

SearchWeights(v, l, r, t) == [vision |-> v, lidar |-> l, radar |-> r, text |-> t]
DefaultWeights == SearchWeights(DefaultVision, DefaultLidar, DefaultRadar, DefaultText)

Modalities == {"vision", "lidar", "radar", "text"}
ModalityOrder == <<"vision", "lidar", "radar", "text">>

-----------------------------------------------------------------------------
(* _make_filter, search.py 20-54 *)

CategoricalKeys == <<"weather", "time_of_day", "road_type", "location_bucket">>

\* lines 32-39: one equality clause per categorical argument that is not None
RECURSIVE MatchClauses(_, _)
MatchClauses(c, keys) ==
    IF keys = <<>> THEN <<>>
    ELSE (IF ~IsNone(c[Head(keys)])
          THEN <<[key |-> Head(keys), match |-> Val(c[Head(keys)])]>>
          ELSE <<>>)
         \o MatchClauses(c, Tail(keys))

\* lines 41-50: qm.Range(gte=ts_min, lte=ts_max)
RangeClause(c) == [key |-> "ts", range |-> [gte |-> c.ts_min, lte |-> c.ts_max]]

\* mutant: the range clause built only when both bounds are given
MakeFilterBothBounds(c) ==
    LET must == MatchClauses(c, CategoricalKeys)
                \o (IF ~IsNone(c.ts_min) /\ ~IsNone(c.ts_max)
                    THEN <<RangeClause(c)>> ELSE <<>>)
    IN  IF must = <<>> THEN None ELSE [must |-> must]

\* lines 30-54
MakeFilter(c) ==
    LET must == MatchClauses(c, CategoricalKeys)
                \o (IF ~IsNone(c.ts_min) \/ ~IsNone(c.ts_max)
                    THEN <<RangeClause(c)>> ELSE <<>>)
    IN  IF must = <<>> THEN None ELSE [must |-> must]

Criteria(w, t, r, l, lo, hi) ==
    [weather |-> w, time_of_day |-> t, road_type |-> r, location_bucket |-> l,
     ts_min |-> lo, ts_max |-> hi]

\* a categorical argument: None, the empty string or a value
Optional(S) == {None} \cup {Some(v) : v \in S}
Timestamps == 0 .. MaxTs
AllCriteria ==
    {Criteria(w, t, r, l, lo, hi) :
        w \in Optional({"", "rain"}), t \in Optional({"night"}),
        r \in Optional({"highway"}), l \in Optional({"zone_a"}),
        lo \in Optional(Timestamps), hi \in Optional(Timestamps)}

NoCriteria == Criteria(None, None, None, None, None, None)

-----------------------------------------------------------------------------
(* is_novel_scene, search.py 182-195 *)

\* the defaults of lines 184-185, the threshold in hundredths
DefaultThreshold == 78
DefaultMinResults == 3

\* lines 192-195; fused_results[0] of an empty list raises IndexError
IsNovelScene(fr, thr, minr) ==
    IF Len(fr) < minr THEN "True"
    ELSE IF fr = <<>> THEN "IndexError"
    ELSE IF DblLess(fr[1].fused_score, thr) THEN "True" ELSE "False"

-----------------------------------------------------------------------------
(* fuse_rankings, search.py 80-133 *)

RecordIds == 1 .. MaxId
\* a null score, a negative score and the positive scores
RawScores == {None} \cup {Some(s) : s \in {-1} \cup (1 .. MaxRawScore)}

\* attributes snapshot of a stored record: the same for every hit of that record
PayloadOf(i) == [sid |-> i]
ScoredPoint(i, s) == [id |-> i, score |-> s, payload |-> PayloadOf(i)]
ScoredPoints == {ScoredPoint(i, s) : i \in RecordIds, s \in RawScores}

\* str(sp.id)
StrId(i) == ToString(i)

\* wmap.get(mod, 0.0), lines 90-95 and 109
WMap(w, mod) == IF mod \in DOMAIN w THEN w[mod] ELSE 0

\* 1e-9 of line 104, as 1 / EpsInv
EpsInv == 1000000000

\* ms > 1e-9 for a whole number ms: ms > 1/EpsInv iff ms > floor(1/EpsInv)
AboveEps(ms) == ms > 1 \div EpsInv

\* lines 100-103: the running maximum, started at 0.0, over the non-null scores
RECURSIVE RunningMax(_, _)
RunningMax(ms, items) ==
    IF items = <<>> THEN ms
    ELSE LET it == Head(items)
         IN  RunningMax(IF ~IsNone(it.score) /\ Val(it.score) > ms
                           THEN Val(it.score) ELSE ms,
                        Tail(items))

\* mutant: the first hit's score taken for the maximum
NormalizerFirstHit(items) ==
    LET ms == IF items # <<>> /\ ~IsNone(Head(items).score)
              THEN Val(Head(items).score) ELSE 0
    IN  IF AboveEps(ms) THEN ms ELSE 1

\* line 104: max_score[mod]
Normalizer(items) ==
    LET ms == RunningMax(0, items) IN IF AboveEps(ms) THEN ms ELSE 1

\* lines 98-104: the max_score dict
MaxScoreMap(lists) ==
    [m \in {lists[j].mod : j \in DOMAIN lists} |->
        Normalizer(lists[CHOOSE j \in DOMAIN lists : lists[j].mod = m].items)]

\* position of sid in the insertion-ordered dict fused (fd), 0 when absent
IndexOf(fd, sid) ==
    IF \E j \in DOMAIN fd : fd[j].id = sid
    THEN CHOOSE j \in DOMAIN fd : fd[j].id = sid
    ELSE 0

\* lines 120-126
NewEntry(sid, sp) ==
    [id |-> sid, fused_score |-> DblZero, per_modality |-> <<>>, payload |-> sp.payload]

\* line 129: per_modality[mod] = float(sp.score)
SetKey(pm, mod, s) ==
    [k \in DOMAIN pm \cup {mod} |-> IF k = mod THEN s ELSE pm[k]]

\* w * (score / denom) in floats, for a weight of w hundredths
Product(w, score, denom) == DblMul(DblDiv(w, WeightScale), DblDiv(score, denom))

\* the weights the scripts use (03_query_examples.py 57, 04_text_query.py 39)
\* and the default
WeightChoices ==
    {DefaultWeights, SearchWeights(45, 30, 15, 10), SearchWeights(0, 0, 0, 100)}

\* the weights argument: None, or a SearchWeights (one of them with a negative weight)
WeightArguments ==
    {None, SearchWeights(45, 30, 15, 10), SearchWeights(-10, 30, 15, 15)}

\* the steps by which a weight is raised where weight settings are compared
RaiseSteps == {1, WeightScale}

\* the weights, in hundredths, that a call can carry: those of the settings above, 0.0
\* for a modality without one (line 109), and each of them raised by a step
WeightsInUse ==
    LET given == {0} \cup UNION {{w[m] : m \in DOMAIN w} :
                                    w \in WeightChoices \cup (WeightArguments \ {None})}
    IN  given \cup {w + d : w \in given, d \in RaiseSteps}

\* the products of the weights, scores and normalizers that occur, computed once
Products ==
    [w \in WeightsInUse, s \in -1 .. MaxRawScore, d \in 1 .. MaxRawScore |->
        Product(w, s, d)]

\* mutant: the weight applied as a discount
ContributionDiscount(w, score, denom) ==
    DblMul(DblDiv(WeightScale - w, WeightScale), DblDiv(score, denom))

\* line 128: w * norm_score with norm_score = float(sp.score) / denom (line 118); the
\* weight w, in hundredths, is the float its literal denotes
Contribution(w, score, denom) == Products[w, score, denom]

\* mutant: the contribution assigned, not accumulated
AddPointAssign(fd, mod, w, denom, sp) ==
    IF IsNone(sp.score) THEN fd
    ELSE LET sid == StrId(sp.id)
             f1 == IF IndexOf(fd, sid) = 0
                   THEN Append(fd, NewEntry(sid, sp)) ELSE fd
             j == IndexOf(f1, sid)
         IN  [f1 EXCEPT
                 ![j].fused_score = Contribution(w, Val(sp.score), denom),
                 ![j].per_modality = SetKey(@, mod, Val(sp.score))]

\* lines 113-129: one scored point
AddPoint(fd, mod, w, denom, sp) ==
    IF IsNone(sp.score) THEN fd
    ELSE LET sid == StrId(sp.id)
             f1 == IF IndexOf(fd, sid) = 0
                   THEN Append(fd, NewEntry(sid, sp)) ELSE fd
             j == IndexOf(f1, sid)
         IN  [f1 EXCEPT
                 ![j].fused_score = DblAdd(@, Contribution(w, Val(sp.score), denom)),
                 ![j].per_modality = SetKey(@, mod, Val(sp.score))]

\* lines 112-129: the inner loop
RECURSIVE AddItems(_, _, _, _, _)
AddItems(fd, mod, w, denom, items) ==
    IF items = <<>> THEN fd
    ELSE AddItems(AddPoint(fd, mod, w, denom, Head(items)), mod, w, denom, Tail(items))

\* line 112: what iterating the items a second time yields: an iterable that can be read
\* only once was used up by the loop of lines 101-103
SecondPass(l) == IF l.one_shot THEN <<>> ELSE l.items

\* lines 108-129: the outer loop, in dict order
RECURSIVE AddModalities(_, _, _, _)
AddModalities(fd, lists, w, maxs) ==
    IF lists = <<>> THEN fd
    ELSE LET l == Head(lists)
         IN  AddModalities(AddItems(fd, l.mod, WMap(w, l.mod), maxs[l.mod], SecondPass(l)),
                           Tail(lists), w, maxs)

\* lines 97-131: list(fd.values())
FuseAll(lists, w) == AddModalities(<<>>, lists, w, MaxScoreMap(lists))

\* where list.sort(key=fused_score, reverse=True) puts e among the already sorted
\* s: after every entry that does not compare below it (the sort is stable)
RECURSIVE InsertDesc(_, _)
InsertDesc(s, e) ==
    IF s = <<>> THEN <<e>>
    ELSE IF DblLess(Head(s).fused_score, e.fused_score)
         THEN <<e>> \o s
         ELSE <<Head(s)>> \o InsertDesc(Tail(s), e)

\* line 132
RECURSIVE SortDesc(_, _)
SortDesc(sorted, rest) ==
    IF rest = <<>> THEN sorted
    ELSE SortDesc(InsertDesc(sorted, Head(rest)), Tail(rest))

\* out[:k] of Python: the first k entries, or all but the last -k when k < 0
SliceTo(s, k) ==
    LET n == IF k >= 0 THEN (IF k < Len(s) THEN k ELSE Len(s))
             ELSE (IF Len(s) + k > 0 THEN Len(s) + k ELSE 0)
    IN  SubSeq(s, 1, n)

\* lines 131-133
FuseRankings(lists, w, k) == SliceTo(SortDesc(<<>>, FuseAll(lists, w)), k)

-----------------------------------------------------------------------------
(* Inputs of fuse_rankings *)

RECURSIVE SeqsUpTo(_, _)
SeqsUpTo(S, n) ==
    IF n = 0 THEN {<<>>}
    ELSE LET shorter == SeqsUpTo(S, n - 1)
         IN  shorter \cup {Append(s, x) : s \in {t \in shorter : Len(t) = n - 1}, x \in S}

ItemLists == SeqsUpTo(ScoredPoints, MaxLen)

\* the key orders of a dict over the modalities
KeyOrders ==
    {ks \in SeqsUpTo(Modalities, MaxMods) :
        \A i, j \in DOMAIN ks : i # j => ks[i] # ks[j]}

RECURSIVE TotalPoints(_)
TotalPoints(lists) ==
    IF lists = <<>> THEN 0 ELSE Len(Head(lists).items) + TotalPoints(Tail(lists))

\* line 81: the items of a modality are an Iterable: a list, or an iterable that can be
\* read only once (one that yields nothing is like the empty list)
ModalityDicts(ks) ==
    LET Fits(f, g) ==
            /\ TotalPoints([j \in DOMAIN ks |-> [items |-> f[j]]]) <= MaxPoints
            /\ \A j \in DOMAIN ks : g[j] => f[j] # <<>>
    IN  {[j \in DOMAIN ks |-> [mod |-> ks[j], items |-> fg[1][j], one_shot |-> fg[2][j]]] :
            fg \in {p \in [DOMAIN ks -> ItemLists] \X [DOMAIN ks -> BOOLEAN] :
                        Fits(p[1], p[2])}}

-----------------------------------------------------------------------------
(* Values of the variables a specification does not use *)

NoSearch ==
    /\ query_vectors = <<>>
    /\ limit_per_modality = 0
    /\ idx = 0
    /\ queries = <<>>
    /\ error = "none"

NoFilter ==
    /\ criteria = <<>>
    /\ filt = None

NoNovelty ==
    /\ fused_results = <<>>
    /\ threshold = DblZero
    /\ min_results = 0
    /\ verdict = "unset"

NoIngest ==
    /\ count = 0
    /\ batch_size = 0
    /\ seed = 0
    /\ now_ts = 0
    /\ loop_i = 0
    /\ buf = <<>>
    /\ store = {}
    /\ upserts = <<>>
    /\ runs = 0
    /\ replays = 0
    /\ failure = "none"
    /\ collection_exists = TRUE
    /\ reset_pc = "idle"

NoEncode ==
    /\ settings = <<>>
    /\ encoder = "none"
    /\ raw_input = <<>>
    /\ vec = <<>>

NoFusion ==
    /\ lists_by_modality = <<>>
    /\ weights = DefaultWeights
    /\ top_k = 0
    /\ max_score = <<>>
    /\ fused = <<>>
    /\ out = <<>>

searchVars == <<query_vectors, limit_per_modality, idx, queries, error>>
filterVars == <<criteria, filt>>
noveltyVars == <<fused_results, threshold, min_results, verdict>>
fusionVars == <<lists_by_modality, weights, top_k, max_score, fused, out>>

-----------------------------------------------------------------------------
(* SpecFuse: one call of fuse_rankings on drawn inputs *)

InitFuse ==
    /\ pc = "start"
    /\ \E ks \in KeyOrders : lists_by_modality \in ModalityDicts(ks)
    /\ weights \in WeightChoices
    /\ top_k \in 1 .. MaxTopK
    /\ max_score = <<>>
    /\ fused = <<>>
    /\ out = <<>>
    /\ NoSearch /\ NoFilter /\ NoNovelty
    /\ NoIngest /\ NoEncode

\* the body of fuse_rankings, lines 90-133
FuseBody ==
    /\ max_score' = MaxScoreMap(lists_by_modality)
    /\ fused' = FuseAll(lists_by_modality, weights)
    /\ out' = FuseRankings(lists_by_modality, weights, top_k)

Fuse ==
    /\ pc = "start"
    /\ FuseBody
    /\ pc' = "fused"
    /\ UNCHANGED <<ingestVars, encodeVars, lists_by_modality, weights, top_k, searchVars,
                   filterVars, noveltyVars>>

NextFuse == Fuse

SpecFuse == InitFuse /\ [][NextFuse]_vars

-----------------------------------------------------------------------------
(* SpecFilter: one call of _make_filter on drawn criteria *)

InitFilter ==
    /\ pc = "start"
    /\ criteria \in AllCriteria
    /\ filt = None
    /\ NoFusion /\ NoSearch /\ NoNovelty
    /\ NoIngest /\ NoEncode

BuildFilter ==
    /\ pc = "start"
    /\ filt' = MakeFilter(criteria)
    /\ pc' = "built"
    /\ UNCHANGED <<ingestVars, encodeVars, criteria, fusionVars, searchVars, noveltyVars>>

NextFilter == BuildFilter

SpecFilter == InitFilter /\ [][NextFilter]_vars

-----------------------------------------------------------------------------
(* SpecNovel: one call of is_novel_scene on a ranked list *)

\* fused scores and thresholds, in hundredths: below, between, at and above
\* the thresholds in use (0.72 of 04_text_query.py 58 and the default)
NoveltyScores == {DblDiv(s, WeightScale) : s \in {50, 72, DefaultThreshold, 100}}
Thresholds == {DblDiv(72, WeightScale), DblDiv(DefaultThreshold, WeightScale)}

\* the lists fuse_rankings can return: descending fused_score
RankedLists ==
    {[j \in DOMAIN s |->
        [id |-> ToString(j), fused_score |-> s[j], per_modality |-> <<>>,
         payload |-> PayloadOf(j)]] :
        s \in {r \in SeqsUpTo(NoveltyScores, MaxFused) :
                 \A j \in DOMAIN r : j > 1 => ~DblLess(r[j - 1], r[j])}}

InitNovel ==
    /\ pc = "start"
    /\ fused_results \in RankedLists
    /\ threshold \in Thresholds
    /\ min_results \in -1 .. MaxMinResults
    /\ verdict = "unset"
    /\ NoFusion /\ NoSearch /\ NoFilter
    /\ NoIngest /\ NoEncode

Decide ==
    /\ pc = "start"
    /\ verdict' = IsNovelScene(fused_results, threshold, min_results)
    /\ pc' = "decided"
    /\ UNCHANGED <<ingestVars, encodeVars, fused_results, threshold, min_results,
                   fusionVars, searchVars, filterVars>>

NextNovel == Decide

SpecNovel == InitNovel /\ [][NextNovel]_vars

-----------------------------------------------------------------------------
(* SpecSearch: one call of search_fused against the store, search.py 136-179 *)

\* what query_points can answer: the first hits, at most limit, of a ranking of
\* the stored records by descending score
Rankings ==
    {[j \in RecordIds |-> ScoredPoint(p[j], Some(MaxRawScore + 1 - j))] :
        p \in Permutations(RecordIds)}

StoreAnswers(limit) ==
    {SubSeq(r, 1, n) : r \in Rankings, n \in 0 .. (IF limit < MaxId THEN limit ELSE MaxId)}

SearchCriteria ==
    {NoCriteria, Criteria(Some("rain"), None, None, None, Some(0), None)}

QueryVectors == [Modalities -> {"absent", "empty", "vector"}]

InitSearch ==
    /\ pc = "start"
    /\ query_vectors \in QueryVectors
    /\ weights \in WeightArguments
    /\ limit_per_modality \in 1 .. MaxLimit
    /\ top_k \in -1 .. MaxTopK
    /\ criteria \in SearchCriteria
    /\ filt = None
    /\ lists_by_modality = <<>>
    /\ max_score = <<>>
    /\ fused = <<>>
    /\ out = <<>>
    /\ idx = 0
    /\ queries = <<>>
    /\ error = "none"
    /\ NoNovelty
    /\ NoIngest /\ NoEncode

\* lines 150-163
Begin ==
    /\ pc = "start"
    /\ weights' = IF IsNone(weights) THEN DefaultWeights ELSE weights
    /\ filt' = MakeFilter(criteria)
    /\ lists_by_modality' = <<>>
    /\ idx' = 1
    /\ pc' = "loop"
    /\ UNCHANGED <<ingestVars, encodeVars, top_k, max_score, fused, out, query_vectors, criteria,
                   limit_per_modality, queries, error, noveltyVars>>

\* the call search_modality makes, lines 68-76
Query(mod) ==
    [using |-> mod, limit |-> limit_per_modality, query_filter |-> filt,
     with_payload |-> TRUE, with_vectors |-> FALSE]

\* lines 167-169: not qv
Skip ==
    /\ pc = "loop"
    /\ idx <= Len(ModalityOrder)
    /\ query_vectors[ModalityOrder[idx]] \in {"absent", "empty"}
    /\ idx' = idx + 1
    /\ UNCHANGED <<ingestVars, encodeVars, pc, fusionVars, query_vectors, limit_per_modality,
                   queries, error,
                   filterVars, noveltyVars>>

\* lines 170-177, the store answering
QueryOk ==
    /\ pc = "loop"
    /\ idx <= Len(ModalityOrder)
    /\ query_vectors[ModalityOrder[idx]] = "vector"
    /\ \E res \in StoreAnswers(limit_per_modality) :
          lists_by_modality' =
              Append(lists_by_modality,
                     [mod |-> ModalityOrder[idx], items |-> res, one_shot |-> FALSE])
    /\ queries' = Append(queries, Query(ModalityOrder[idx]))
    /\ idx' = idx + 1
    /\ UNCHANGED <<ingestVars, encodeVars, pc, weights, top_k, max_score, fused, out, query_vectors,
                   limit_per_modality, error, filterVars, noveltyVars>>

\* lines 170-177, query_points raising: nothing catches it, the call ends
QueryFail ==
    /\ pc = "loop"
    /\ idx <= Len(ModalityOrder)
    /\ query_vectors[ModalityOrder[idx]] = "vector"
    /\ queries' = Append(queries, Query(ModalityOrder[idx]))
    /\ error' = "StoreQueryError"
    /\ pc' = "raised"
    /\ UNCHANGED <<ingestVars, encodeVars, fusionVars, query_vectors, limit_per_modality, idx,
                   filterVars, noveltyVars>>

\* line 179
FuseResults ==
    /\ pc = "loop"
    /\ idx > Len(ModalityOrder)
    /\ FuseBody
    /\ pc' = "done"
    /\ UNCHANGED <<ingestVars, encodeVars, lists_by_modality, weights, top_k, searchVars,
                   filterVars, noveltyVars>>

NextSearch == Begin \/ Skip \/ QueryOk \/ QueryFail \/ FuseResults

SpecSearch == InitSearch /\ [][NextSearch]_vars

-----------------------------------------------------------------------------
(* What the properties are stated with: read off the inputs, not off the    *)
(* loops of fuse_rankings                                                   *)

One == DblOf(1)

\* the record identifier a string names
IdNum(sid) == CHOOSE i \in RecordIds : ToString(i) = sid

Keys(lists) == {lists[j].mod : j \in DOMAIN lists}
ItemsOf(lists, m) == lists[CHOOSE j \in DOMAIN lists : lists[j].mod = m].items

\* positions in the list of modality m where the record has a non-null score
ScoredAt(lists, m, sid) ==
    {i \in DOMAIN ItemsOf(lists, m) :
        /\ ToString(ItemsOf(lists, m)[i].id) = sid
        /\ ItemsOf(lists, m)[i].score # None}

\* positions in the list of modality m where the record appears at all
AppearsAt(lists, m, sid) ==
    {i \in DOMAIN ItemsOf(lists, m) : ToString(ItemsOf(lists, m)[i].id) = sid}

\* the occurrences <<modality, position>> of the record with a non-null score
Occurrences(lists, sid) ==
    UNION {{<<m, i>> : i \in ScoredAt(lists, m, sid)} : m \in Keys(lists)}

NonNullScores(items) ==
    {items[i].score[1] : i \in {k \in DOMAIN items : items[k].score # None}}

SetMax(S) == CHOOSE x \in S : \A y \in S : y <= x

\* a whole-number score exceeds 1e-9 exactly when it is positive
MaxRaw(items) == SetMax(NonNullScores(items))
HasSignal(items) == NonNullScores(items) # {} /\ MaxRaw(items) > 0

\* the float sum of a sequence of terms, each added in turn to what 0.0 has become
RECURSIVE FloatSum(_, _)
FloatSum(acc, terms) ==
    IF terms = <<>> THEN acc ELSE FloatSum(DblAdd(acc, Head(terms)), Tail(terms))

\* the float weight * (raw / normalizer), with the weight in hundredths
Term(w, raw, norm) == DblMul(DblDiv(w, WeightScale), DblDiv(raw, norm))

\* the normalizer the specification gives a list
NormOf(items) == IF HasSignal(items) THEN MaxRaw(items) ELSE 1

\* the terms of the record's scored occurrences in one list, in list order
TermsIn(l, sid, w) ==
    LET hits == SelectSeq(l.items, LAMBDA sp : sp.score # None /\ ToString(sp.id) = sid)
    IN  [k \in DOMAIN hits |-> Term(WMap(w, l.mod), hits[k].score[1], NormOf(l.items))]

\* the terms of the record's scored occurrences in the lists from the j-th on, in the
\* order the lists are supplied; an iterable read only once gives none
RECURSIVE TermsFrom(_, _, _, _)
TermsFrom(lists, j, sid, w) ==
    IF j > Len(lists) THEN <<>>
    ELSE (IF lists[j].one_shot THEN <<>> ELSE TermsIn(lists[j], sid, w))
             \o TermsFrom(lists, j + 1, sid, w)

\* the modalities whose items are a list
Rereadable(lists) == {lists[j].mod : j \in {k \in DOMAIN lists : ~lists[k].one_shot}}

ScoreIn(fs, sid) == fs[CHOOSE j \in DOMAIN fs : fs[j].id = sid].fused_score

\* a before b in the order the specification asks for
Before(a, b) ==
    \/ DblLess(b.fused_score, a.fused_score)
    \/ a.fused_score = b.fused_score /\ IdNum(a.id) < IdNum(b.id)

-----------------------------------------------------------------------------
(* C1: the list fuse_rankings returns is sorted by descending fused_score,  *)
(* entries of equal fused_score stand in ascending record-identifier order, *)
(* and the list is the first top_k entries of that ordering of all fused    *)
(* records.                                                                 *)
C1_SortedWithTieBreak ==
    pc = "fused" =>
        /\ \A i, j \in DOMAIN out : i < j => Before(out[i], out[j])
        /\ Len(out) = (IF top_k < Len(fused) THEN top_k ELSE Len(fused))
        /\ \A j \in DOMAIN fused :
              (\A i \in DOMAIN out : out[i].id # fused[j].id) =>
                  \A i \in DOMAIN out : Before(out[i], fused[j])

\* what C2 compares: identifiers and fused scores by position; the dict in
\* another order of its entries
Ranking(fs) == [j \in DOMAIN fs |-> <<fs[j].id, fs[j].fused_score>>]
Permuted(lists, p) == [j \in DOMAIN lists |-> lists[p[j]]]

(* C2: fuse_rankings returns the same identifiers in the same positions     *)
(* with the same fused scores for every order in which the modality entries *)
(* are supplied.                                                            *)
C2_OrderIndependent ==
    pc = "fused" =>
        \A p \in Permutations(DOMAIN lists_by_modality) :
            Ranking(FuseRankings(Permuted(lists_by_modality, p), weights, top_k))
                = Ranking(out)

(* C3, as stated: the fused_score of every returned record is the sum, over *)
(* the modalities in whose list the record appeared, of weight * (raw score *)
(* / max score), and per_modality holds its raw score for exactly the       *)
(* modalities in which it appeared.                                         *)
C3_SumOverModalities ==
    pc = "fused" =>
        \A j \in DOMAIN out :
            LET e == out[j]
                L == lists_by_modality
                S == {m \in Keys(L) : AppearsAt(L, m, e.id) # {}}
                in == SelectSeq(L, LAMBDA l : l.mod \in S)
            IN  /\ DOMAIN e.per_modality = S
                /\ e.fused_score =
                      FloatSum(DblZero,
                               [k \in DOMAIN in |->
                                   Term(WMap(weights, in[k].mod), e.per_modality[in[k].mod],
                                        max_score[in[k].mod])])

(* C3, amended: the fused_score of every returned record is the float sum,  *)
(* added to 0.0 in the order the modalities are supplied and the lists run, *)
(* over every occurrence of the record with a non-null score in a           *)
(* modality's list, of weight * (raw score / max score); per_modality has a *)
(* key for exactly the modalities where the record so occurs, holding the   *)
(* raw score of the last such occurrence. Items that can be iterated only   *)
(* once count as having no occurrence.                                      *)
C3_SumOverOccurrences ==
    pc = "fused" =>
        \A j \in DOMAIN out :
            LET e == out[j]
                L == lists_by_modality
                S == {m \in Rereadable(L) : ScoredAt(L, m, e.id) # {}}
            IN  /\ DOMAIN e.per_modality = S
                /\ \A m \in S :
                      e.per_modality[m] =
                          ItemsOf(L, m)[SetMax(ScoredAt(L, m, e.id))].score[1]
                /\ e.fused_score = FloatSum(DblZero, TermsFrom(L, 1, e.id, weights))

\* C3 witness: a returned record scored twice in one list and once in another
C3_Witness ==
    /\ pc = "fused"
    /\ \E j \in DOMAIN out : \E m, n \in Keys(lists_by_modality) :
          /\ m # n
          /\ Cardinality(ScoredAt(lists_by_modality, m, out[j].id)) >= 2
          /\ ScoredAt(lists_by_modality, n, out[j].id) # {}
          /\ out[j].fused_score # DblZero

(* C4, as stated: for every modality's non-empty list the normalizer is the *)
(* maximum raw score of the list, or 1.0 when that maximum is at most       *)
(* 1e-9, and the candidate with the maximum raw score normalizes to exactly *)
(* 1.0.                                                                     *)
C4_MaxNormalizesToOne ==
    pc = "fused" =>
        \A m \in Keys(lists_by_modality) :
            LET items == ItemsOf(lists_by_modality, m)
            IN  NonNullScores(items) # {} =>
                    /\ max_score[m] = (IF MaxRaw(items) > 0 THEN MaxRaw(items) ELSE 1)
                    /\ DblDiv(MaxRaw(items), max_score[m]) = One

(* C4, amended: for every modality's list the normalizer is the maximum     *)
(* non-null raw score of the list when that maximum exceeds 1e-9 and 1.0    *)
(* otherwise; when the maximum exceeds 1e-9 the candidate with the maximum  *)
(* raw score normalizes to exactly 1.0 (a record whose only scored          *)
(* occurrence is that candidate gets fused_score = its modality's weight),  *)
(* and otherwise every candidate normalizes to its raw score.               *)
C4_NormalizerLaw ==
    pc = "fused" =>
        \A m \in Keys(lists_by_modality) :
            LET items == ItemsOf(lists_by_modality, m)
            IN  /\ max_score[m] = (IF HasSignal(items) THEN MaxRaw(items) ELSE 1)
                /\ HasSignal(items) => DblDiv(MaxRaw(items), max_score[m]) = One
                /\ \A j \in DOMAIN fused, i \in DOMAIN items :
                      Occurrences(lists_by_modality, fused[j].id) = {<<m, i>>} =>
                          fused[j].fused_score =
                              IF HasSignal(items)
                              THEN IF items[i].score[1] = MaxRaw(items)
                                   THEN DblDiv(WMap(weights, m), WeightScale)
                                   ELSE Term(WMap(weights, m), items[i].score[1],
                                             MaxRaw(items))
                              ELSE Term(WMap(weights, m), items[i].score[1], 1)

\* C4 witness: a list with two different scores whose top candidate alone
\* carries a record, fused to exactly the modality's non-zero weight
C4_Witness ==
    /\ pc = "fused"
    /\ \E m \in Keys(lists_by_modality) :
          LET items == ItemsOf(lists_by_modality, m)
          IN  /\ HasSignal(items)
              /\ Cardinality(NonNullScores(items)) >= 2
              /\ WMap(weights, m) # 0
              /\ \E j \in DOMAIN fused, i \in DOMAIN items :
                    /\ Occurrences(lists_by_modality, fused[j].id) = {<<m, i>>}
                    /\ items[i].score[1] = MaxRaw(items)
                    /\ fused[j].fused_score = DblDiv(WMap(weights, m), WeightScale)

\* the weight settings compared: the weight of one modality raised by a step of RaiseSteps
Raised(w, m, d) == [w EXCEPT ![m] = @ + d]

(* C5, as stated: raising one modality's weight, the others fixed, never    *)
(* lowers the fused_score of a record that appears in that modality's list. *)
C5_Monotone ==
    pc = "fused" =>
        \A m \in Keys(lists_by_modality), d \in RaiseSteps, j \in DOMAIN fused :
            AppearsAt(lists_by_modality, m, fused[j].id) # {} =>
                ~DblLess(ScoreIn(FuseAll(lists_by_modality, Raised(weights, m, d)),
                                  fused[j].id),
                          fused[j].fused_score)

(* C5, amended: raising one modality's weight, the others fixed, never      *)
(* lowers the fused_score of a record whose non-null raw scores in that     *)
(* modality's list are all non-negative.                                    *)
C5_MonotoneNonNegative ==
    pc = "fused" =>
        \A m \in Keys(lists_by_modality), d \in RaiseSteps, j \in DOMAIN fused :
            /\ AppearsAt(lists_by_modality, m, fused[j].id) # {}
            /\ \A i \in ScoredAt(lists_by_modality, m, fused[j].id) :
                  ItemsOf(lists_by_modality, m)[i].score[1] >= 0
            => ~DblLess(ScoreIn(FuseAll(lists_by_modality, Raised(weights, m, d)),
                                 fused[j].id),
                         fused[j].fused_score)

\* C5 witness: a record with a positive score in a modality, whose fused_score
\* is strictly higher under the raised weight
C5_Witness ==
    /\ pc = "fused"
    /\ \E m \in Keys(lists_by_modality), j \in DOMAIN fused :
          /\ ScoredAt(lists_by_modality, m, fused[j].id) # {}
          /\ \A i \in ScoredAt(lists_by_modality, m, fused[j].id) :
                ItemsOf(lists_by_modality, m)[i].score[1] > 0
          /\ DblLess(fused[j].fused_score,
                      ScoreIn(FuseAll(lists_by_modality, Raised(weights, m, 1)),
                              fused[j].id))

\* the two conditions of is_novel_scene, read off its arguments
Short == Len(fused_results) < min_results
BestBelow ==
    \E j \in DOMAIN fused_results :
        /\ \A k \in DOMAIN fused_results :
              ~DblLess(fused_results[j].fused_score, fused_results[k].fused_score)
        /\ DblLess(fused_results[j].fused_score, threshold)

(* C6: is_novel_scene returns true exactly when the list has fewer than    *)
(* min_results entries or its best fused_score is strictly below threshold, *)
(* and false otherwise; at least min_results entries with the top score     *)
(* equal to threshold give false.                                           *)
C6_NoveltyVerdict ==
    pc = "decided" => verdict = (IF Short \/ BestBelow THEN "True" ELSE "False")

\* what holds of the verdict: the rule of C6 wherever a best score exists or the
\* list is short, and IndexError for the empty list with min_results <= 0
NoveltyVerdictWhereDefined ==
    pc = "decided" =>
        IF fused_results = <<>> /\ min_results <= 0
        THEN verdict = "IndexError"
        ELSE verdict = (IF Short \/ BestBelow THEN "True" ELSE "False")

\* the modalities search_fused is given a (non-empty) query vector for
Supplied(m) == query_vectors[m] = "vector"
QueriesFor(m) == {j \in DOMAIN queries : queries[j].using = m}
Terminal == pc \in {"done", "raised"}

(* C7: a store query failing inside search_fused does not end the call: the *)
(* remaining supplied modalities are still queried and the call returns the *)
(* fusion, the failed modality counting as having no candidates.            *)
C7_FailureIsolated ==
    error # "none" =>
        /\ pc # "raised"
        /\ pc = "done" =>
              /\ \A m \in Modalities : Supplied(m) => QueriesFor(m) # {}
              /\ out = FuseRankings(lists_by_modality, weights, top_k)

\* the configuration of the running call
EffectiveWeights == IF IsNone(weights) THEN DefaultWeights ELSE weights
Malformed == top_k <= 0 \/ \E m \in Modalities : EffectiveWeights[m] < 0

(* C8: with a negative fusion weight or top_k <= 0, search_fused issues no  *)
(* store query and returns no result: it fails with a configuration error.  *)
C8_EagerValidation ==
    Malformed =>
        /\ queries = <<>>
        /\ pc # "done"
        /\ Terminal => error = "ConfigurationError"

(* C9: search_fused issues exactly one store query for each modality with a *)
(* supplied query vector and none for the others; every query carries the   *)
(* same filter and limit_per_modality; every queried modality's answer,     *)
(* empty or not, goes into the fusion.                                      *)
C9_FanOut ==
    /\ \A m \in Modalities :
          /\ Cardinality(QueriesFor(m)) <= 1
          /\ ~Supplied(m) => QueriesFor(m) = {}
    /\ \A j \in DOMAIN queries :
          /\ queries[j].limit = limit_per_modality
          /\ queries[j].query_filter = queries[1].query_filter
    /\ Terminal =>
          \A m \in Modalities : Supplied(m) => Cardinality(QueriesFor(m)) = 1
    /\ pc = "done" => Keys(lists_by_modality) = {m \in Modalities : Supplied(m)}

\* the criteria that are present, and the clauses of the filter on one key
PresentKeys == {i \in DOMAIN CategoricalKeys : criteria[CategoricalKeys[i]] # None}
HasTs == criteria.ts_min # None \/ criteria.ts_max # None
ClausesOn(k) == {j \in DOMAIN filt.must : filt.must[j].key = k}

(* C10: _make_filter returns a filter with exactly one equality clause for  *)
(* each categorical criterion that is present and exactly one range clause  *)
(* on ts, with gte = ts_min and lte = ts_max, when ts_min or ts_max is      *)
(* present; it returns None exactly when every criterion is absent, and     *)
(* never a filter with an empty clause list.                                *)
C10_FilterClauses ==
    pc = "built" =>
        /\ filt = None <=> (PresentKeys = {} /\ ~HasTs)
        /\ filt # None =>
              /\ filt.must # <<>>
              /\ Len(filt.must) = Cardinality(PresentKeys) + (IF HasTs THEN 1 ELSE 0)
              /\ \A i \in DOMAIN CategoricalKeys :
                    /\ Cardinality(ClausesOn(CategoricalKeys[i]))
                          = (IF i \in PresentKeys THEN 1 ELSE 0)
                    /\ \A j \in ClausesOn(CategoricalKeys[i]) :
                          filt.must[j] = [key |-> CategoricalKeys[i],
                                          match |-> criteria[CategoricalKeys[i]][1]]
              /\ Cardinality(ClausesOn("ts")) = (IF HasTs THEN 1 ELSE 0)
              /\ \A j \in ClausesOn("ts") :
                    filt.must[j].range = [gte |-> criteria.ts_min, lte |-> criteria.ts_max]

\* C10 witness: a filter with an equality clause on the empty string and a range
\* clause with only the upper bound
C10_Witness ==
    /\ pc = "built"
    /\ criteria.weather = <<"">>
    /\ criteria.ts_min = None
    /\ criteria.ts_max = <<0>>
    /\ filt # None
    /\ Len(filt.must) >= 2
    /\ \E j \in ClausesOn("ts") : filt.must[j].range.lte = <<0>>

-----------------------------------------------------------------------------
(* SpecIngest: calls of ingest_scenarios against one collection,            *)
(* ingest.py 159-265, with the caller replaying flushed batches and         *)
(* resetting the collection, schema.py 12-35                                *)

MaxCount == 3       \* count is -1..MaxCount
MaxBatch == 2       \* batch_size is 0..MaxBatch
MaxRuns == 2        \* calls of ingest_scenarios in one behaviour
MaxReplays == 1     \* batches the caller replays in one behaviour

\* ingest.py line 243, the default of seed
DefaultSeed == 42

\* ingest.py line 214, the width of the number in the payload's "sid"
SidWidth == 7

RECURSIVE Digits(_)
Digits(n) == IF n < 10 THEN 1 ELSE 1 + Digits(n \div 10)

RECURSIVE Zeros(_)
Zeros(k) == IF k <= 0 THEN "" ELSE "0" \o Zeros(k - 1)

\* line 214: f"scn_{s.sid:07d}"
SidLabel(n) == "scn_" \o Zeros(SidWidth - Digits(n)) \o ToString(n)

\* lines 159-202: the scenario of index i. Its sid is i; every other field is computed
\* from now_ts and from generators seeded with seed and i, so the three determine it
MakeScenario(n, now, sd) == [sid |-> n, now_ts |-> now, seed |-> sd]

\* mutant: the point is identified by its scenario's time, not by its index alone
ScenarioToPointFreshId(s) ==
    [id |-> s.sid + s.now_ts,
     payload |-> [sid |-> SidLabel(s.sid), now_ts |-> s.now_ts, seed |-> s.seed]]

\* lines 205-236: the point of a scenario, identified by the scenario's sid; its vectors
\* are the encoders' results (SpecEncode) and are left out here
ScenarioToPoint(s) ==
    [id |-> s.sid,
     payload |-> [sid |-> SidLabel(s.sid), now_ts |-> s.now_ts, seed |-> s.seed]]

\* mutant: the buffer is flushed one point late
BufferFullOffByOne(b, bs) == Len(b) > bs

\* line 259: len(buf) >= batch_size
BufferFull(b, bs) == Len(b) >= bs

\* the collection's upsert: keyed by point id, a point replaces the stored point of the
\* same id, and within one call the later point of an id wins
Upsert(st, points) ==
    LET ids == {points[k].id : k \in DOMAIN points}
        LastOf(id) == points[CHOOSE k \in DOMAIN points :
                                /\ points[k].id = id
                                /\ \A l \in DOMAIN points : points[l].id = id => l <= k]
    IN  {p \in st : p.id \notin ids} \cup {LastOf(id) : id \in ids}

\* one entry of the history of upsert calls; applied says that the collection holds what
\* the call wrote: the store wrote it and the collection was not reset since
UpsertCall(kind, ok, applied, points) ==
    [run |-> runs, kind |-> kind, ok |-> ok, applied |-> applied, points |-> points]

BatchSizes == 0 .. MaxBatch

InitIngest ==
    /\ pc = "idle"
    /\ count \in -1 .. MaxCount
    /\ batch_size = 0
    /\ seed = DefaultSeed
    /\ now_ts = 0
    /\ loop_i = 0
    /\ buf = <<>>
    /\ store = {}
    /\ upserts = <<>>
    /\ runs = 0
    /\ replays = 0
    /\ failure = "none"
    /\ collection_exists \in BOOLEAN
    /\ reset_pc = "idle"
    /\ NoFusion /\ NoSearch /\ NoFilter /\ NoNovelty /\ NoEncode

\* lines 246-254: a call of ingest_scenarios, every call of a behaviour with the same
\* count; between two calls the clock has stood still or moved on (by how much does not
\* matter: now_ts is only stored and compared)
Call ==
    /\ pc \in {"idle", "returned", "raised"}
    /\ runs < MaxRuns
    /\ runs' = runs + 1
    /\ \E bs \in BatchSizes, now \in {n \in {now_ts, now_ts + 1} : n >= 1} :
          /\ batch_size' = bs
          /\ IF count <= 0
             THEN /\ pc' = "returned"
                  /\ failure' = "none"
                  /\ UNCHANGED <<now_ts, loop_i, buf>>
             ELSE IF bs <= 0
             THEN /\ pc' = "raised"
                  /\ failure' = "ValueError"
                  /\ UNCHANGED <<now_ts, loop_i, buf>>
             ELSE /\ pc' = "loop"
                  /\ failure' = "none"
                  /\ now_ts' = now
                  /\ loop_i' = 0
                  /\ buf' = <<>>
    /\ UNCHANGED <<count, seed, store, upserts, replays>>
    /\ UNCHANGED <<collection_exists, reset_pc>>
    /\ UNCHANGED <<fusionVars, searchVars, filterVars, noveltyVars, encodeVars>>

\* lines 256-259: one iteration of the loop, up to the test of the buffer
Iterate ==
    /\ pc = "loop"
    /\ loop_i < count
    /\ buf' = Append(buf, ScenarioToPoint(MakeScenario(loop_i, now_ts, seed)))
    /\ loop_i' = loop_i + 1
    /\ pc' = IF BufferFull(buf', batch_size) THEN "flush" ELSE "loop"
    /\ UNCHANGED <<count, batch_size, seed, now_ts, store, upserts, runs, replays, failure>>
    /\ UNCHANGED <<collection_exists, reset_pc>>
    /\ UNCHANGED <<fusionVars, searchVars, filterVars, noveltyVars, encodeVars>>

\* lines 260-261: the upsert of a full buffer succeeds, which takes a collection to
\* write to, and the buffer is cleared
FlushOk ==
    /\ pc = "flush"
    /\ collection_exists
    /\ store' = Upsert(store, buf)
    /\ upserts' = Append(upserts, UpsertCall("flush", TRUE, TRUE, buf))
    /\ buf' = <<>>
    /\ pc' = "loop"
    /\ UNCHANGED <<count, batch_size, seed, now_ts, loop_i, runs, replays, failure>>
    /\ UNCHANGED <<collection_exists, reset_pc>>
    /\ UNCHANGED <<fusionVars, searchVars, filterVars, noveltyVars, encodeVars>>

\* mutant: the exception of the upsert is swallowed and the loop goes on
FlushFailSwallowed ==
    /\ pc = "flush"
    /\ upserts' = Append(upserts, UpsertCall("flush", FALSE, FALSE, buf))
    /\ buf' = <<>>
    /\ pc' = "loop"
    /\ UNCHANGED <<count, batch_size, seed, now_ts, loop_i, store, runs, replays, failure>>
    /\ UNCHANGED <<collection_exists, reset_pc>>
    /\ UNCHANGED <<fusionVars, searchVars, filterVars, noveltyVars, encodeVars>>

\* line 260: the upsert of a full buffer raises, having written the batch or not (it
\* writes nothing and raises when the collection is missing); nothing catches the
\* exception, which leaves ingest_scenarios
FlushFail ==
    /\ pc = "flush"
    /\ \E applied \in {a \in BOOLEAN : a => collection_exists} :
          /\ store' = IF applied THEN Upsert(store, buf) ELSE store
          /\ upserts' = Append(upserts, UpsertCall("flush", FALSE, applied, buf))
    /\ pc' = "raised"
    /\ failure' = "UpsertError"
    /\ UNCHANGED <<count, batch_size, seed, now_ts, loop_i, buf, runs, replays>>
    /\ UNCHANGED <<collection_exists, reset_pc>>
    /\ UNCHANGED <<fusionVars, searchVars, filterVars, noveltyVars, encodeVars>>

\* lines 256 and 263-264: the loop is over; what is left in the buffer is flushed
EndLoop ==
    /\ pc = "loop"
    /\ loop_i >= count
    /\ pc' = IF buf # <<>> THEN "final" ELSE "returned"
    /\ UNCHANGED <<ingestVars, fusionVars, searchVars, filterVars, noveltyVars, encodeVars>>

\* line 265: the last upsert succeeds
FinalOk ==
    /\ pc = "final"
    /\ collection_exists
    /\ store' = Upsert(store, buf)
    /\ upserts' = Append(upserts, UpsertCall("flush", TRUE, TRUE, buf))
    /\ pc' = "returned"
    /\ UNCHANGED <<count, batch_size, seed, now_ts, loop_i, buf, runs, replays, failure>>
    /\ UNCHANGED <<collection_exists, reset_pc>>
    /\ UNCHANGED <<fusionVars, searchVars, filterVars, noveltyVars, encodeVars>>

\* line 265: the last upsert raises
FinalFail ==
    /\ pc = "final"
    /\ \E applied \in {a \in BOOLEAN : a => collection_exists} :
          /\ store' = IF applied THEN Upsert(store, buf) ELSE store
          /\ upserts' = Append(upserts, UpsertCall("flush", FALSE, applied, buf))
    /\ pc' = "raised"
    /\ failure' = "UpsertError"
    /\ UNCHANGED <<count, batch_size, seed, now_ts, loop_i, buf, runs, replays>>
    /\ UNCHANGED <<collection_exists, reset_pc>>
    /\ UNCHANGED <<fusionVars, searchVars, filterVars, noveltyVars, encodeVars>>

\* the caller sends a flushed batch again, with the contents it was flushed with
Replay ==
    /\ pc \in {"returned", "raised"}
    /\ collection_exists
    /\ replays < MaxReplays
    /\ replays' = replays + 1
    /\ \E k \in DOMAIN upserts :
          /\ upserts[k].kind = "flush"
          /\ upserts[k].ok
          /\ store' = Upsert(store, upserts[k].points)
          /\ upserts' = Append(upserts, UpsertCall("replay", TRUE, TRUE, upserts[k].points))
    /\ UNCHANGED <<pc, count, batch_size, seed, now_ts, loop_i, buf, runs, failure>>
    /\ UNCHANGED <<collection_exists, reset_pc>>
    /\ UNCHANGED <<fusionVars, searchVars, filterVars, noveltyVars, encodeVars>>

\* schema.py 12-35, recreate_collection (scripts/01_create_collection.py 9), runs
\* beside the calls of ingest_scenarios and makes three calls to the store, one after
\* the other; reset_pc is "idle" before a call and after one that returned, "delete" and
\* "create" before lines 19 and 29, "raised" after a call that a store call has ended

\* lines 17-18: get_collections answers, and the name is looked up in the answer
GetCollections ==
    /\ reset_pc \in {"idle", "raised"}
    /\ reset_pc' = IF collection_exists THEN "delete" ELSE "create"
    /\ UNCHANGED <<pc, count, batch_size, seed, now_ts, loop_i, buf, store, upserts, runs,
                   replays, failure, collection_exists>>
    /\ UNCHANGED <<fusionVars, searchVars, filterVars, noveltyVars, encodeVars>>

\* line 17: get_collections raises
GetCollectionsFail ==
    /\ reset_pc \in {"idle", "raised"}
    /\ reset_pc' = "raised"
    /\ UNCHANGED <<pc, count, batch_size, seed, now_ts, loop_i, buf, store, upserts, runs,
                   replays, failure, collection_exists>>
    /\ UNCHANGED <<fusionVars, searchVars, filterVars, noveltyVars, encodeVars>>

\* line 19: delete_collection: the collection and all it held are gone
DeleteCollection ==
    /\ reset_pc = "delete"
    /\ collection_exists' = FALSE
    /\ store' = {}
    /\ upserts' = IF upserts = <<>> THEN <<>>
                  ELSE [k \in DOMAIN upserts |-> [upserts[k] EXCEPT !.applied = FALSE]]
    /\ reset_pc' = "create"
    /\ UNCHANGED <<pc, count, batch_size, seed, now_ts, loop_i, buf, runs, replays, failure>>
    /\ UNCHANGED <<fusionVars, searchVars, filterVars, noveltyVars, encodeVars>>

\* line 19: delete_collection raises and the collection stays
DeleteCollectionFail ==
    /\ reset_pc = "delete"
    /\ reset_pc' = "raised"
    /\ UNCHANGED <<pc, count, batch_size, seed, now_ts, loop_i, buf, store, upserts, runs,
                   replays, failure, collection_exists>>
    /\ UNCHANGED <<fusionVars, searchVars, filterVars, noveltyVars, encodeVars>>

\* lines 29-35: create_collection: the collection is there again and holds no point
CreateCollection ==
    /\ reset_pc = "create"
    /\ ~collection_exists
    /\ collection_exists' = TRUE
    /\ store' = {}
    /\ reset_pc' = "idle"
    /\ UNCHANGED <<pc, count, batch_size, seed, now_ts, loop_i, buf, upserts, runs, replays,
                   failure>>
    /\ UNCHANGED <<fusionVars, searchVars, filterVars, noveltyVars, encodeVars>>

\* lines 29-35: create_collection raises; recreate_collection ends with no collection
CreateCollectionFail ==
    /\ reset_pc = "create"
    /\ reset_pc' = "raised"
    /\ UNCHANGED <<pc, count, batch_size, seed, now_ts, loop_i, buf, store, upserts, runs,
                   replays, failure, collection_exists>>
    /\ UNCHANGED <<fusionVars, searchVars, filterVars, noveltyVars, encodeVars>>

NextIngest ==
    \/ Call
    \/ Iterate
    \/ FlushOk
    \/ FlushFail
    \/ EndLoop
    \/ FinalOk
    \/ FinalFail
    \/ Replay
    \/ GetCollections
    \/ GetCollectionsFail
    \/ DeleteCollection
    \/ DeleteCollectionFail
    \/ CreateCollection
    \/ CreateCollectionFail

SpecIngest == InitIngest /\ [][NextIngest]_vars

\* the upsert calls of the running or last call of ingest_scenarios, in order
FlushesOfRun ==
    SelectSeq(upserts, LAMBDA c : c.run = runs /\ c.kind = "flush")

\* the places <<call, position>> at which identifier n was sent in these calls
SentAt(calls, n) ==
    {kj \in (DOMAIN calls) \X (1 .. MaxCount + 1) :
        /\ kj[2] \in DOMAIN calls[kj[1]].points
        /\ calls[kj[1]].points[kj[2]].id = n}

(* C11: when ingest_scenarios(count, batch_size) completes with count > 0,  *)
(* batch_size > 0 and no store failure, every identifier 0..count-1 was     *)
(* sent in exactly one upsert call, every call but the last carries exactly *)
(* batch_size records, the last carries between 1 and batch_size, and no    *)
(* call is empty.                                                           *)
C11_Batching ==
    (pc = "returned" /\ count > 0 /\ batch_size > 0) =>
        LET calls == FlushesOfRun
        IN  /\ \A n \in 0 .. count - 1 : Cardinality(SentAt(calls, n)) = 1
            /\ \A k \in DOMAIN calls :
                  \A j \in DOMAIN calls[k].points :
                      calls[k].points[j].id \in 0 .. count - 1
            /\ \A k \in DOMAIN calls : k < Len(calls) => Len(calls[k].points) = batch_size
            /\ calls # <<>>
            /\ Len(calls[Len(calls)].points) \in 1 .. batch_size
            /\ \A k \in DOMAIN calls : calls[k].points # <<>>

\* C11 witness: three records ingested in batches of two, the last batch holding one
C11_Witness ==
    /\ pc = "returned"
    /\ count = 3
    /\ batch_size = 2
    /\ Len(FlushesOfRun) = 2
    /\ Len(FlushesOfRun[1].points) = 2
    /\ Len(FlushesOfRun[2].points) = 1

\* the points of the batches the running call has flushed successfully
FlushedPoints ==
    UNION {{upserts[k].points[j] : j \in DOMAIN upserts[k].points} :
           k \in {l \in DOMAIN upserts : /\ upserts[l].run = runs
                                         /\ upserts[l].kind = "flush"
                                         /\ upserts[l].ok}}

\* this step is an upsert of ingest_scenarios that fails
UpsertFails ==
    /\ Len(upserts') = Len(upserts) + 1
    /\ upserts'[Len(upserts')].kind = "flush"
    /\ ~upserts'[Len(upserts')].ok

\* the points of the batches the running call has flushed successfully and that no reset
\* of the collection has deleted since
HeldPoints ==
    UNION {{upserts[k].points[j] : j \in DOMAIN upserts[k].points} :
           k \in {l \in DOMAIN upserts : /\ upserts[l].run = runs
                                         /\ upserts[l].kind = "flush"
                                         /\ upserts[l].ok
                                         /\ upserts[l].applied}}

(* C12: when one upsert batch of ingest_scenarios fails, every record of    *)
(* the batches flushed before it is in the store as it was before the       *)
(* failure (there, unless a reset of the collection has deleted it), and    *)
(* the failure leaves ingest_scenarios as an exception instead of being     *)
(* swallowed.                                                               *)
C12_FailureKeepsFlushed ==
    [][UpsertFails =>
          /\ \A p \in FlushedPoints : (p \in store) = (p \in store')
          /\ \A p \in HeldPoints : p \in store /\ p \in store'
          /\ pc' = "raised"
          /\ failure' = "UpsertError"]_vars

\* C12 witness: a call that flushed one batch and failed on the next, which the store
\* had written all the same
C12_Witness ==
    /\ pc = "raised"
    /\ failure = "UpsertError"
    /\ FlushedPoints # {}
    /\ FlushedPoints \subseteq store
    /\ ~upserts[Len(upserts)].ok
    /\ upserts[Len(upserts)].applied
    /\ upserts[Len(upserts)].run = runs

\* the collection was reset after the last call of ingest_scenarios flushed
ResetSinceRun ==
    \E k \in DOMAIN upserts :
        /\ upserts[k].run = runs
        /\ upserts[k].kind = "flush"
        /\ upserts[k].ok
        /\ ~upserts[k].applied

\* the upsert calls whose point of identifier n the collection holds or has overwritten:
\* those since the last reset that wrote one
WritesOf(n) ==
    {k \in DOMAIN upserts :
        /\ upserts[k].applied
        /\ \E j \in DOMAIN upserts[k].points : upserts[k].points[j].id = n}

\* the identifiers the store holds
StoredIds == {p.id : p \in store}

\* the point of identifier n in the latest upsert call that wrote one
LastWritten(n) ==
    LET c == upserts[SetMax(WritesOf(n))]
    IN  c.points[SetMax({j \in DOMAIN c.points : c.points[j].id = n})]

(* C13: ingest replay is idempotent on record identity: after replaying a   *)
(* flushed batch, or re-running ingest_scenarios with the same count after  *)
(* a partial or complete run, the store holds no two records of one         *)
(* identifier and no identifier outside 0..count-1, each record is the one  *)
(* written last for its identifier, and once a run has completed there is   *)
(* exactly one record per identifier in 0..count-1. Records are deleted     *)
(* only by a collection reset: the writes that count are those since the    *)
(* last reset, and the completed run is one the collection was not reset    *)
(* after.                                                                   *)
C13_ReplayIdempotent ==
    /\ \A p, q \in store : p.id = q.id => p = q
    /\ \A p \in store : p.id \in 0 .. count - 1
    /\ \A n \in 0 .. count - 1 : n \in StoredIds <=> WritesOf(n) # {}
    /\ \A p \in store : p = LastWritten(p.id)
    /\ (pc = "returned" /\ count > 0 /\ batch_size > 0 /\ ~ResetSinceRun) =>
          /\ StoredIds = 0 .. count - 1
          /\ Cardinality(store) = count

\* C13 witness: a first run that failed part-way, the collection reset, a complete
\* second run at a later time, and a batch of the first run replayed after it: three
\* records, one of them older
C13_Witness ==
    /\ pc = "returned"
    /\ runs = 2
    /\ replays = 1
    /\ count = 3
    /\ Cardinality(store) = 3
    /\ \E k \in DOMAIN upserts : upserts[k].run = 1 /\ ~upserts[k].ok
    /\ \E k \in DOMAIN upserts : upserts[k].run = 1 /\ upserts[k].ok /\ ~upserts[k].applied
    /\ \E p, q \in store : p.payload.now_ts < q.payload.now_ts

-----------------------------------------------------------------------------
(* SpecEncode: one call of an encoder, embeddings/vision.py, lidar.py,      *)
(* radar.py and text.py, under the dimensions of config.py                  *)

MaxDim == 130       \* a configured dimension is 1..MaxDim
MaxFeature == 2     \* a feature value is 0..MaxFeature
MaxPattern == 1     \* raw inputs differ by a pattern 0..MaxPattern
MaxRows == 2        \* a lidar array has 0..MaxRows rows
MaxShort == 3       \* short radar signals have 0..MaxShort samples
MaxOver == 2        \* long radar signals have 2 * RadarBins - 2 + (0..MaxOver) samples
MaxTokens == 2      \* a text has 0..MaxTokens tokens
MaxHash == 2        \* a token hashes to 0..MaxHash

\* config.py lines 12-15
DefaultVisionDim == 256
DefaultLidarDim == 128
DefaultRadarDim == 128
DefaultTextDim == 256

\* vision.py lines 24, 26 and 33
VisionBins == 16
VisionChannels == 3
EdgeBins == 16

\* lidar.py lines 14 and 28
LidarCols == 3
LidarHistBins == 64

\* radar.py line 21
RadarBins == 128

\* config.py lines 4-19: Settings with its defaults
DefaultSettings ==
    [vision_dim |-> DefaultVisionDim, lidar_dim |-> DefaultLidarDim,
     radar_dim |-> DefaultRadarDim, text_dim |-> DefaultTextDim]

\* SETTINGS.<modality>_dim
DimOf(st, m) ==
    CASE m = "vision" -> st.vision_dim
      [] m = "lidar" -> st.lidar_dim
      [] m = "radar" -> st.radar_dim
      [] m = "text" -> st.text_dim

\* the settings in which the dimension of modality m is d
SettingsWith(m, d) ==
    CASE m = "vision" -> [DefaultSettings EXCEPT !.vision_dim = d]
      [] m = "lidar" -> [DefaultSettings EXCEPT !.lidar_dim = d]
      [] m = "radar" -> [DefaultSettings EXCEPT !.radar_dim = d]
      [] m = "text" -> [DefaultSettings EXCEPT !.text_dim = d]

\* n feature values computed from a raw input of pattern k
Pattern(n, k) == [i \in 1 .. n |-> (i + k) % (MaxFeature + 1)]

\* np.pad(v, (0, n), mode="constant")
PadRight(v, n) == v \o [i \in 1 .. n |-> 0]

\* the sum of the squares of whole numbers, the two halves of v summed apart
RECURSIVE SumSq(_)
SumSq(v) ==
    IF v = <<>> THEN 0
    ELSE IF Len(v) = 1 THEN v[1] * v[1]
    ELSE LET h == Len(v) \div 2
         IN  SumSq(SubSeq(v, 1, h)) + SumSq(SubSeq(v, h + 1, Len(v)))

\* _l2_normalize: entry i is v[i] / (sqrt(sumsq) + 1e-12), kept as the pair of v[i] and the
\* sum of squares it is divided by
L2Normalize(v) == [i \in 1 .. Len(v) |-> [x |-> v[i], sumsq |-> SumSq(v)]]

Ok(v) == [status |-> "ok", v |-> v]
Raises(e) == [status |-> e, v |-> <<>>]

\* vision.py lines 19-36: three colour histograms and one edge histogram
VisionFeatures(img) == Pattern(VisionChannels * VisionBins + EdgeBins, img.pattern)

\* vision.py lines 39-42
VisionFit(v, dim) == IF Len(v) < dim THEN PadRight(v, dim - Len(v)) ELSE SliceTo(v, dim)

\* vision.py lines 12-44
VisionEmbedding(img, st) == Ok(L2Normalize(VisionFit(VisionFeatures(img), st.vision_dim)))

\* lidar.py lines 21-30: mean, std, mins, maxs of the columns and the radial histogram
LidarFeatures(pts) == Pattern(4 * LidarCols + LidarHistBins, pts.pattern)

\* lidar.py lines 33-36
LidarFit(v, dim) == IF Len(v) < dim THEN PadRight(v, dim - Len(v)) ELSE SliceTo(v, dim)

\* lidar.py lines 10-38; the minimum of no rows (line 23) raises ValueError
LidarEmbedding(pts, st) ==
    IF Len(pts.shape) # 2 \/ pts.shape[2] # LidarCols THEN Raises("ValueError")
    ELSE IF pts.shape[1] = 0 THEN Raises("ValueError")
    ELSE Ok(L2Normalize(LidarFit(LidarFeatures(pts), st.lidar_dim)))

\* radar.py lines 17-18: the magnitudes of the real FFT of T samples
RadarMagnitudes(sig) == Pattern(sig.samples \div 2 + 1, sig.pattern)

\* radar.py lines 21-26: the magnitudes brought to RadarBins bins
RadarResample(mag) ==
    IF Len(mag) < RadarBins THEN PadRight(mag, RadarBins - Len(mag))
    ELSE [j \in 1 .. RadarBins |-> mag[((j - 1) * (Len(mag) - 1)) \div (RadarBins - 1) + 1]]

\* mutant: the slice is not padded when the dimension exceeds the number of bins
RadarFitNoPad(v, dim) == SliceTo(v, dim)

\* radar.py lines 29-31
RadarFit(v, dim) ==
    LET w == SliceTo(v, dim)
    IN  IF Len(w) < dim THEN PadRight(w, dim - Len(w)) ELSE w

\* radar.py lines 10-33; the FFT of no samples (line 17) raises ValueError
RadarEmbedding(sig, st) ==
    IF sig.samples = 0 THEN Raises("ValueError")
    ELSE Ok(L2Normalize(RadarFit(RadarResample(RadarMagnitudes(sig)), st.radar_dim)))

\* text.py lines 7-15 and 26-27: the hashing vectorizer counts the tokens of the text in
\* n_features = text_dim buckets, a token falling into bucket hash % n_features
TextFeatures(tokens, dim) ==
    [b \in 1 .. dim |-> Cardinality({t \in DOMAIN tokens : tokens[t] % dim = b - 1})]

\* text.py lines 23-28
TextEmbedding(txt, st) == Ok(L2Normalize(TextFeatures(txt.tokens, st.text_dim)))

\* the raw inputs
Images == {[pattern |-> k] : k \in 0 .. MaxPattern}
LidarShapes ==
    {<<n>> : n \in 0 .. MaxRows} \cup
    {<<n, c>> : n \in 0 .. MaxRows, c \in {LidarCols - 1, LidarCols}}
PointClouds == {[shape |-> sh, pattern |-> k] : sh \in LidarShapes, k \in 0 .. MaxPattern}
SignalLengths == (0 .. MaxShort) \cup {2 * RadarBins - 2 + d : d \in 0 .. MaxOver}
Signals == {[samples |-> n, pattern |-> k] : n \in SignalLengths, k \in 0 .. MaxPattern}
Texts == {[tokens |-> s] : s \in SeqsUpTo(0 .. MaxHash, MaxTokens)}

RawInputs(m) ==
    CASE m = "vision" -> Images
      [] m = "lidar" -> PointClouds
      [] m = "radar" -> Signals
      [] m = "text" -> Texts

InitEncode ==
    /\ pc = "call"
    /\ encoder \in Modalities
    /\ \E d \in 1 .. MaxDim : settings = SettingsWith(encoder, d)
    /\ raw_input \in RawInputs(encoder)
    /\ vec = Raises("unset")
    /\ NoFusion /\ NoSearch /\ NoFilter /\ NoNovelty /\ NoIngest

VisionEmbed ==
    /\ pc = "call" /\ encoder = "vision"
    /\ vec' = VisionEmbedding(raw_input, settings)
    /\ pc' = "embedded"
    /\ UNCHANGED <<settings, encoder, raw_input>>
    /\ UNCHANGED <<fusionVars, searchVars, filterVars, noveltyVars, ingestVars>>

LidarEmbed ==
    /\ pc = "call" /\ encoder = "lidar"
    /\ vec' = LidarEmbedding(raw_input, settings)
    /\ pc' = "embedded"
    /\ UNCHANGED <<settings, encoder, raw_input>>
    /\ UNCHANGED <<fusionVars, searchVars, filterVars, noveltyVars, ingestVars>>

RadarEmbed ==
    /\ pc = "call" /\ encoder = "radar"
    /\ vec' = RadarEmbedding(raw_input, settings)
    /\ pc' = "embedded"
    /\ UNCHANGED <<settings, encoder, raw_input>>
    /\ UNCHANGED <<fusionVars, searchVars, filterVars, noveltyVars, ingestVars>>

TextEmbed ==
    /\ pc = "call" /\ encoder = "text"
    /\ vec' = TextEmbedding(raw_input, settings)
    /\ pc' = "embedded"
    /\ UNCHANGED <<settings, encoder, raw_input>>
    /\ UNCHANGED <<fusionVars, searchVars, filterVars, noveltyVars, ingestVars>>

NextEncode ==
    \/ VisionEmbed
    \/ LidarEmbed
    \/ RadarEmbed
    \/ TextEmbed

SpecEncode == InitEncode /\ [][NextEncode]_vars

\* the features the encoder computes before fitting them to the configured dimension
FeaturesOf(m, inp, st) ==
    CASE m = "vision" -> VisionFeatures(inp)
      [] m = "lidar" -> LidarFeatures(inp)
      [] m = "radar" -> RadarResample(RadarMagnitudes(inp))
      [] m = "text" -> TextFeatures(inp.tokens, st.text_dim)

(* C14: for every accepted raw input and every positive configured          *)
(* dimension, each encoder returns a vector whose length is exactly the     *)
(* configured dimension of its modality: its entries are the features in    *)
(* order, cut on the right when there are more than the dimension and       *)
(* followed by zeros when there are fewer.                                  *)
C14_ConfiguredLength ==
    (pc = "embedded" /\ vec.status = "ok") =>
        LET dim == DimOf(settings, encoder)
            f == FeaturesOf(encoder, raw_input, settings)
        IN  /\ Len(vec.v) = dim
            /\ \A i \in 1 .. dim :
                  vec.v[i].x = (IF i <= Len(f) THEN f[i] ELSE 0)

\* C14 witness: a long radar signal, resampled to RadarBins bins, under a dimension
\* above RadarBins, so that the vector ends in padding
C14_Witness ==
    /\ pc = "embedded"
    /\ encoder = "radar"
    /\ vec.status = "ok"
    /\ raw_input.samples \div 2 + 1 > RadarBins
    /\ settings.radar_dim > RadarBins
    /\ Len(vec.v) = settings.radar_dim
    /\ vec.v[settings.radar_dim].x = 0
    /\ vec.v[RadarBins].x # 0

(* C15: is_novel_scene returns a boolean, without raising, for every fused  *)
(* result list, the empty list included, and every integer min_results,     *)
(* zero and negative values included.                                       *)
C15_AlwaysBoolean ==
    pc = "decided" => verdict \in {"True", "False"}

\* the identifiers, as strings, that have a non-null score in some input list
ScoredIds(lists) ==
    UNION {{ToString(lists[j].items[i].id) :
                i \in {k \in DOMAIN lists[j].items : lists[j].items[k].score # None}} :
           j \in DOMAIN lists}

(* C16: for top_k >= 1 the list fuse_rankings returns holds each record     *)
(* identifier at most once, also when the record appears in several         *)
(* modalities or several times in one list, and its length is the smaller   *)
(* of top_k and the number of distinct identifiers that have a non-null     *)
(* score in some input list.                                                *)
C16_DistinctAndLength ==
    pc = "fused" =>
        /\ \A i, j \in DOMAIN out : i # j => out[i].id # out[j].id
        /\ \A i \in DOMAIN out : out[i].id \in ScoredIds(lists_by_modality)
        /\ Len(out) = (IF top_k < Cardinality(ScoredIds(lists_by_modality))
                       THEN top_k
                       ELSE Cardinality(ScoredIds(lists_by_modality)))

====
